---- MODULE Spec2Model ----
(***************************************************************************)
(* NamenodeProxy (src/server/NamenodeProxy.cpp): the pool of namenode      *)
(* handles, the index of the namenode believed active, guarded by one      *)
(* mutex, and the retry loop NAMENODE_HA_RETRY_BEGIN / _END that wraps     *)
(* every remote call.                                                      *)
(*                                                                         *)
(* A thread is at one of these places:                                     *)
(*   idle        outside the proxy                                         *)
(*   get_lock    in getActiveNamenode, waiting for mut                     *)
(*   get_cs      in getActiveNamenode, holding mut                         *)
(*   work        inside the remote call on the handle it was given         *)
(*   fo_lock     in failoverToNextNamenode, waiting for mut                *)
(*   fo_cs       in failoverToNextNamenode, holding mut                    *)
(*   close_cs    in close, holding mut (an idle thread calls close)        *)
(*   done        the wrapped call has returned or thrown                   *)
(*   aborted     the thread brought the process down                       *)
(***************************************************************************)
EXTENDS Integers, Sequences, FiniteSets, TLC

\* ------------------------------------------------------------------ bounds
NumThreads == 2          \* threads that use the proxy
MaxNamenodes == 2        \* largest namenodeInfos.size(), concurrent callers
MaxRpcMaxHaRetry == 1    \* largest c.getRpcMaxHaRetry(), concurrent callers
SoloNamenodes == 3       \* largest namenodeInfos.size(), one caller
SoloRpcMaxHaRetry == 2   \* largest c.getRpcMaxHaRetry(), one caller
RolesNamenodes == 3      \* largest namenodeInfos.size(), fixed roles
RolesRpcMaxHaRetry == 1  \* largest c.getRpcMaxHaRetry(), fixed roles

Threads == 1 .. NumThreads

\* what one execution of the wrapped call ends with
Kinds == {"result", "NameNodeStandbyException", "HdfsFailoverException", "other"}

\* an HdfsFailoverException carries a nested exception (1) or none (0)
Causes == {0, 1}

VARIABLES
    namenodes,            \* std::vector<shared_ptr<Namenode>>: sequence of handles
    currentNamenode,      \* uint32_t
    enableNamenodeHA,     \* bool
    maxNamenodeHARetry,   \* int
    mut,                  \* mutex: 0 when free, else the thread holding it
    th,                   \* per thread: place, locals of the retry loop, outcome
    proc,                 \* "running", "aborted" (abort()), "trapped" (integer division trap)
    undefined,            \* history: a remainder by namenodes.size() == 0 was computed
    closes,               \* history: close() calls completed, saturating at 2
    pool,                 \* history: namenodes as the constructor left it
    won,                  \* history: snapshots of the failover calls that changed the index
    recent                \* history: snapshots of the last size-1 calls that changed the index

vars == <<namenodes, currentNamenode, enableNamenodeHA, maxNamenodeHARetry,
          mut, th, proc, undefined, closes, pool, won, recent>>

\* ------------------------------------------------------------ construction
\* std::shuffle: every ordering of the handles built from namenodeInfos
Shuffles(n) ==
    { s \in [1 .. n -> 1 .. n] : \A i, j \in 1 .. n : i # j => s[i] # s[j] }

\* the state of a thread that is outside the proxy
IdleThread ==
    [pc |-> "idle", count |-> 0, oldValue |-> 0, namenode |-> 0,
     raised |-> "none", rcause |-> 0, outcome |-> "none", value |-> 0,
     execs |-> 0, calls |-> 0, advances |-> 0, start |-> -1, seen |-> {},
     solo |-> FALSE, chg |-> 0, last |-> "none", tried |-> {}, prev |-> -1]

\* NamenodeProxy::NamenodeProxy, for at most maxSize namenodeInfos and
\* c.getRpcMaxHaRetry() at most maxRetry
Constructed(maxSize, maxRetry) ==
    /\ \E n \in 1 .. maxSize :
         /\ namenodes \in Shuffles(n)
         /\ enableNamenodeHA = (n # 1)
         /\ IF n = 1
              THEN maxNamenodeHARetry = 0
              ELSE maxNamenodeHARetry \in 0 .. maxRetry
    /\ currentNamenode = 0
    /\ pool = namenodes

\* nobody has called into the proxy yet
Started ==
    /\ mut = 0
    /\ th = [t \in Threads |-> IdleThread]
    /\ proc = "running"
    /\ undefined = FALSE
    /\ closes = 0
    /\ won = {}
    /\ recent = <<>>

\* ----------------------------------------------------------------- helpers
\* lock_guard<mutex>: the constructor blocks until mut is free
LockFree == mut = 0

\* (mutant) mut stays with the thread after the scope ends
ScopeExit_held(t) == t

\* lock_guard<mutex>: the destructor, on return and on throw, frees mut
ScopeExit(t) == 0

\* namenodes.empty()
PoolClosed(nn) == Len(nn) = 0

\* (mutant) the handle after the one the index names
HandleAt_next(nn, cur) == nn[((cur + 1) % Len(nn)) + 1]

\* namenodes[currentNamenode % namenodes.size()]
HandleAt(nn, cur) == nn[(cur % Len(nn)) + 1]

\* (mutant) the stale-snapshot check is missing
AlreadyFailedOver_never(old, cur) == FALSE

\* if (oldValue != currentNamenode) return;
AlreadyFailedOver(old, cur) == old # cur

\* (mutant) the index is not reduced modulo the size
NextIndex_nowrap(cur, size) == cur + 1

\* (mutant) the index skips a position
NextIndex_skip(cur, size) == (cur + 2) % size

\* ++currentNamenode; currentNamenode = currentNamenode % namenodes.size();
\* (uint32_t: the increment cannot wrap, the index never exceeds the pool's
\* size, see TypeOK)
NextIndex(cur, size) == (cur + 1) % size

\* the remainder by zero is undefined: the division traps, or yields 0, or
\* yields the dividend
UndefinedRemainders(cur) == {0, cur + 1}

\* (mutant) >= in place of >
Exhausted_geq(count) == (~enableNamenodeHA) \/ (count >= maxNamenodeHARetry)

\* !enableNamenodeHA || __count++ > maxNamenodeHARetry  (the comparison)
Exhausted(count) == (~enableNamenodeHA) \/ (count > maxNamenodeHARetry)

\* (mutant) the count is not incremented
CountAfter_same(count) == count

\* __count++ is evaluated only when enableNamenodeHA (short-circuit ||)
CountAfter(count) == IF enableNamenodeHA THEN count + 1 ELSE count

\* (mutant) a catch-all clause retries every failure
Retryable_all(kind) == TRUE

\* the catch clauses of NAMENODE_HA_RETRY_END
Retryable(kind) == kind \in {"NameNodeStandbyException", "HdfsFailoverException"}

\* (mutant) close() leaves the handles in place
Cleared_kept(nn) == nn

\* namenodes.clear()
Cleared(nn) == <<>>

\* HandleHdfsFailoverException: rethrow_if_nested throws the nested exception
\* and catch (...) throws HdfsRpcException nesting it; with nothing nested
\* rethrow_if_nested returns and abort() is reached
HandleHdfsFailoverException(cause) == IF cause # 0 THEN "HdfsRpcException" ELSE "abort"

\* history bookkeeping: another thread acted while r's invocation ran, or
\* since r's invocation ended
Disturb(r) ==
    IF r.solo \/ r.prev # -1
      THEN [r EXCEPT !.solo = FALSE, !.start = -1, !.seen = {}, !.advances = 0,
                     !.tried = {}, !.prev = -1]
      ELSE r

\* history bookkeeping: the index changed while r holds a snapshot
IndexMoved(r) ==
    IF r.pc \in {"work", "fo_lock", "fo_cs"} /\ r.chg < 2
      THEN [r EXCEPT !.chg = r.chg + 1] ELSE r

\* thread t becomes rec, the others are left as they are
Touch(t, rec) == [u \in Threads |-> IF u = t THEN rec ELSE Disturb(th[u])]

\* thread t becomes rec and the index has changed
TouchMoved(t, rec) == [u \in Threads |-> IF u = t THEN rec ELSE IndexMoved(Disturb(th[u]))]

\* history bookkeeping: the last size-1 snapshots whose call changed the index
Remember(old, size) ==
    LET all == Append(recent, old)
    IN  IF Len(all) > size - 1 THEN SubSeq(all, Len(all) - size + 2, Len(all)) ELSE all

\* ------------------------------------------------------------------ actions
\* NAMENODE_HA_RETRY_BEGIN: int __count = 0; enter the loop
Invoke(t) ==
    /\ proc = "running"
    /\ th[t].pc = "idle"
    /\ th' = Touch(t, [IdleThread EXCEPT
                         !.pc = "get_lock",
                         !.solo = \A u \in Threads \ {t} : th[u].pc \in {"idle", "done"},
                         !.prev = IF \A u \in Threads \ {t} : th[u].pc \in {"idle", "done"}
                                    THEN th[t].prev ELSE -1])
    /\ UNCHANGED <<namenodes, currentNamenode, enableNamenodeHA, maxNamenodeHARetry, pool,
                   mut, proc, undefined, closes, won, recent>>

\* getActiveNamenode: lock_guard<mutex> lock(mut)
GetLock(t) ==
    /\ proc = "running"
    /\ th[t].pc = "get_lock"
    /\ LockFree
    /\ mut' = t
    /\ th' = Touch(t, [th[t] EXCEPT !.pc = "get_cs", !.last = "none"])
    /\ UNCHANGED <<namenodes, currentNamenode, enableNamenodeHA, maxNamenodeHARetry, pool,
                   proc, undefined, closes, won, recent>>

\* getActiveNamenode: the body, under mut
GetActiveNamenode(t) ==
    /\ proc = "running"
    /\ th[t].pc = "get_cs"
    /\ mut = t
    /\ IF PoolClosed(namenodes)
         THEN th' = Touch(t, [th[t] EXCEPT !.pc = "done", !.namenode = 0,
                                            !.outcome = "HdfsFileSystemClosed",
                                            !.prev = -1])
         ELSE th' = Touch(t, [th[t] EXCEPT
                                !.pc = "work",
                                !.oldValue = currentNamenode,
                                !.namenode = HandleAt(namenodes, currentNamenode),
                                !.chg = 0,
                                !.tried = IF th[t].solo
                                            THEN th[t].tried
                                                   \cup {HandleAt(namenodes, currentNamenode)}
                                            ELSE {},
                                !.start = IF th[t].solo /\ th[t].execs = 0
                                            THEN currentNamenode ELSE th[t].start])
    /\ mut' = ScopeExit(t)
    /\ UNCHANGED <<namenodes, currentNamenode, enableNamenodeHA, maxNamenodeHARetry, pool,
                   proc, undefined, closes, won, recent>>

\* the remote call returns a result: break / return
WorkReturns(t) ==
    /\ proc = "running"
    /\ th[t].pc = "work"
    /\ th' = Touch(t, [th[t] EXCEPT !.pc = "done", !.execs = th[t].execs + 1,
                                     !.raised = "result", !.outcome = "result",
                                     !.value = th[t].namenode, !.chg = 0, !.prev = -1])
    /\ UNCHANGED <<namenodes, currentNamenode, enableNamenodeHA, maxNamenodeHARetry, pool,
                   mut, proc, undefined, closes, won, recent>>

\* the remote call throws: the catch clauses of NAMENODE_HA_RETRY_END
WorkThrows(t) ==
    /\ proc = "running"
    /\ th[t].pc = "work"
    /\ \E kind \in Kinds \ {"result"}, cause \in Causes :
         /\ (kind # "HdfsFailoverException") => (cause = 0)
         /\ LET r0 == [th[t] EXCEPT !.execs = th[t].execs + 1, !.raised = kind, !.prev = -1]
                r  == [r0 EXCEPT !.count = CountAfter(th[t].count),
                                 !.seen = IF th[t].solo THEN th[t].seen \cup {kind} ELSE {}]
            IN  IF Retryable(kind)
                  THEN IF Exhausted(th[t].count)
                         THEN IF kind = "HdfsFailoverException"
                                \* HandleHdfsFailoverException(e)
                                THEN IF HandleHdfsFailoverException(cause) = "abort"
                                       THEN /\ th' = Touch(t, [r EXCEPT !.pc = "aborted",
                                                                        !.chg = 0,
                                                                        !.rcause = cause])
                                            /\ proc' = "aborted"
                                       ELSE /\ th' = Touch(t, [r EXCEPT
                                                   !.pc = "done", !.chg = 0,
                                                   !.rcause = cause,
                                                   !.outcome = HandleHdfsFailoverException(cause),
                                                   !.value = cause])
                                            /\ proc' = proc
                                \* throw;
                                ELSE /\ th' = Touch(t, [r EXCEPT !.pc = "done", !.chg = 0,
                                                                 !.outcome = kind])
                                     /\ proc' = proc
                         \* fall out of the catch clause to failoverToNextNamenode
                         ELSE /\ th' = Touch(t, [r EXCEPT !.pc = "fo_lock"])
                              /\ proc' = proc
                  \* no catch clause: the exception leaves the loop
                  ELSE /\ th' = Touch(t, [r0 EXCEPT !.pc = "done", !.chg = 0,
                                                    !.outcome = kind])
                       /\ proc' = proc
    /\ UNCHANGED <<namenodes, currentNamenode, enableNamenodeHA, maxNamenodeHARetry, pool,
                   mut, undefined, closes, won, recent>>

\* failoverToNextNamenode: lock_guard<mutex> lock(mut)
FailoverLock(t) ==
    /\ proc = "running"
    /\ th[t].pc = "fo_lock"
    /\ LockFree
    /\ mut' = t
    /\ th' = Touch(t, [th[t] EXCEPT !.pc = "fo_cs", !.raised = "none"])
    /\ UNCHANGED <<namenodes, currentNamenode, enableNamenodeHA, maxNamenodeHARetry, pool,
                   proc, undefined, closes, won, recent>>

\* failoverToNextNamenode: the body, under mut; then the loop starts over
FailoverToNextNamenode(t) ==
    /\ proc = "running"
    /\ th[t].pc = "fo_cs"
    /\ mut = t
    /\ LET r == [th[t] EXCEPT !.pc = "get_lock", !.calls = th[t].calls + 1, !.chg = 0,
                               !.last = "noop"]
           a == [r EXCEPT !.advances = IF th[t].solo THEN th[t].advances + 1 ELSE 0,
                          !.last = "advanced"]
       IN  IF AlreadyFailedOver(th[t].oldValue, currentNamenode)
             THEN /\ th' = Touch(t, r)
                  /\ UNCHANGED <<currentNamenode, proc, undefined, won, recent>>
             ELSE IF Len(namenodes) # 0
               THEN /\ currentNamenode' = NextIndex(currentNamenode, Len(namenodes))
                    /\ th' = IF currentNamenode' # currentNamenode
                               THEN TouchMoved(t, a) ELSE Touch(t, r)
                    /\ won' = IF currentNamenode' # currentNamenode
                                THEN won \cup {th[t].oldValue} ELSE won
                    /\ recent' = IF currentNamenode' # currentNamenode
                                   THEN Remember(th[t].oldValue, Len(namenodes))
                                   ELSE recent
                    /\ UNCHANGED <<proc, undefined>>
               ELSE /\ undefined' = TRUE
                    /\ \/ /\ proc' = "trapped"
                          /\ th' = Touch(t, [r EXCEPT !.pc = "aborted", !.last = "none"])
                          /\ UNCHANGED <<currentNamenode, won, recent>>
                       \/ /\ currentNamenode' \in UndefinedRemainders(currentNamenode)
                          /\ th' = IF currentNamenode' # currentNamenode
                                     THEN TouchMoved(t, a) ELSE Touch(t, r)
                          /\ won' = IF currentNamenode' # currentNamenode
                                      THEN won \cup {th[t].oldValue} ELSE won
                          /\ UNCHANGED <<proc, recent>>
    /\ mut' = ScopeExit(t)
    /\ UNCHANGED <<namenodes, enableNamenodeHA, maxNamenodeHARetry, closes, pool>>

\* close: lock_guard<mutex> lock(mut)
CloseLock(t) ==
    /\ proc = "running"
    /\ th[t].pc = "idle"
    /\ LockFree
    /\ mut' = t
    /\ th' = Touch(t, [IdleThread EXCEPT !.pc = "close_cs"])
    /\ UNCHANGED <<namenodes, currentNamenode, enableNamenodeHA, maxNamenodeHARetry, pool,
                   proc, undefined, closes, won, recent>>

\* close: namenodes.clear(), under mut
Close(t) ==
    /\ proc = "running"
    /\ th[t].pc = "close_cs"
    /\ mut = t
    /\ namenodes' = Cleared(namenodes)
    /\ closes' = IF closes < 2 THEN closes + 1 ELSE closes
    /\ mut' = ScopeExit(t)
    /\ th' = Touch(t, IdleThread)
    /\ UNCHANGED <<currentNamenode, enableNamenodeHA, maxNamenodeHARetry, pool,
                   proc, undefined, won, recent>>

\* the caller has its result or its exception and leaves the proxy
Return(t) ==
    /\ proc = "running"
    /\ th[t].pc = "done"
    /\ th' = Touch(t, [IdleThread EXCEPT
                         !.prev = IF th[t].solo /\ enableNamenodeHA /\ Retryable(th[t].raised)
                                    THEN th[t].oldValue ELSE -1])
    /\ UNCHANGED <<namenodes, currentNamenode, enableNamenodeHA, maxNamenodeHARetry, pool,
                   mut, proc, undefined, closes, won, recent>>

Next ==
    \E t \in Threads :
        \/ Invoke(t)
        \/ GetLock(t)
        \/ GetActiveNamenode(t)
        \/ WorkReturns(t)
        \/ WorkThrows(t)
        \/ FailoverLock(t)
        \/ FailoverToNextNamenode(t)
        \/ CloseLock(t)
        \/ Close(t)
        \/ Return(t)

Init ==
    /\ Constructed(MaxNamenodes, MaxRpcMaxHaRetry)
    /\ Started

\* any number of threads call into one proxy
Spec == Init /\ [][Next]_vars

\* one caller: only thread 1 ever calls into the proxy
NextSolo ==
    \/ Invoke(1)
    \/ GetLock(1)
    \/ GetActiveNamenode(1)
    \/ WorkReturns(1)
    \/ WorkThrows(1)
    \/ FailoverLock(1)
    \/ FailoverToNextNamenode(1)
    \/ CloseLock(1)
    \/ Close(1)
    \/ Return(1)

InitSolo ==
    /\ Constructed(SoloNamenodes, SoloRpcMaxHaRetry)
    /\ Started

SpecSolo == InitSolo /\ [][NextSolo]_vars

\* ---------------------------------------------------- fixed endpoint roles
\* the namenode behind handle h is the active one: the first of namenodeInfos,
\* which the shuffle puts at an arbitrary position of the pool
IsActive(h) == h = 1

\* the remote call ran on the active namenode: it returns its result
ActiveReturns(t) == WorkReturns(t) /\ IsActive(th[t].namenode)

\* the remote call ran on a standby namenode: NameNodeStandbyException
StandbyThrows(t) ==
    /\ WorkThrows(t)
    /\ ~IsActive(th[t].namenode)
    /\ th'[t].raised = "NameNodeStandbyException"

\* callers of a proxy that nobody closes, over namenodes with fixed roles
NextRoles ==
    \E t \in Threads :
        \/ Invoke(t)
        \/ GetLock(t)
        \/ GetActiveNamenode(t)
        \/ ActiveReturns(t)
        \/ StandbyThrows(t)
        \/ FailoverLock(t)
        \/ FailoverToNextNamenode(t)
        \/ Return(t)

\* HA with a retry budget that covers every standby namenode
InitRoles ==
    /\ Constructed(RolesNamenodes, RolesRpcMaxHaRetry)
    /\ Started
    /\ enableNamenodeHA
    /\ maxNamenodeHARetry >= Len(namenodes) - 2

\* a running thread takes its next step, the remote call ends, and a thread
\* blocked on mut gets it at one of the times it is free
FairRoles ==
    \A t \in Threads :
        /\ SF_vars(GetLock(t))
        /\ WF_vars(GetActiveNamenode(t))
        /\ WF_vars(ActiveReturns(t))
        /\ WF_vars(StandbyThrows(t))
        /\ SF_vars(FailoverLock(t))
        /\ WF_vars(FailoverToNextNamenode(t))

SpecRoles == InitRoles /\ [][NextRoles]_vars /\ FairRoles

\* --------------------------------------------------------------- type check
TypeOK ==
    /\ mut \in 0 .. NumThreads
    /\ proc \in {"running", "aborted", "trapped"}
    /\ currentNamenode \in 0 .. MaxNamenodes + SoloNamenodes
    /\ \A t \in Threads : th[t].count \in 0 .. maxNamenodeHARetry + 2

\* ------------------------------------------------------------------ claims
\* thread t's failoverToNextNamenode call completes in this step
FailoverCallEnds(t) == th[t].pc = "fo_cs" /\ th'[t].pc # "fo_cs"

\* C1: threads that hold the same snapshot s of an open pool and call
\* failoverToNextNamenode(s) with no other advance in between leave the index at
\* (s + 1) mod size: the
\* first call (no change of the index since its snapshot) moves the index, each
\* later one (one change since its snapshot, made by a call with the same
\* snapshot) is a no-op.
C1_ConcurrentCollapse ==
    [][\A t \in Threads :
         (FailoverCallEnds(t) /\ ~PoolClosed(namenodes) /\ th[t].chg <= 1)
         => /\ currentNamenode' = (th[t].oldValue + 1) % Len(namenodes)
            /\ (currentNamenode' # currentNamenode) <=> (th[t].chg = 0)]_vars

\* C1 witness: two threads called failoverToNextNamenode with the same snapshot,
\* one call moved the index and the other was a no-op
C1_Witness ==
    \E t, u \in Threads :
        /\ t # u
        /\ ~PoolClosed(namenodes)
        /\ th[t].pc = "get_lock" /\ th[t].last = "advanced"
        /\ th[u].pc = "get_lock" /\ th[u].last = "noop"
        /\ th[t].oldValue = th[u].oldValue
        /\ currentNamenode = (th[t].oldValue + 1) % Len(namenodes)

\* C2 as stated: no two failoverToNextNamenode calls passed the same snapshot
\* value both change the index, over the whole life of the proxy
C2_Original ==
    [][\A t \in Threads :
         (FailoverCallEnds(t) /\ ~PoolClosed(namenodes)
            /\ currentNamenode' # currentNamenode)
         => th[t].oldValue \notin won]_vars

\* C2 amended: while the pool is open, two failoverToNextNamenode calls passed
\* the same snapshot value both change the index only when the index has gone
\* all the way round in between: the snapshot of a call that changes the index
\* is not among the snapshots of the size - 1 calls that changed it last.
C2_SameSnapshotNeedsWrap ==
    [][\A t \in Threads :
         (FailoverCallEnds(t) /\ ~PoolClosed(namenodes)
            /\ currentNamenode' # currentNamenode)
         => \A i \in 1 .. Len(recent) : recent[i] # th[t].oldValue]_vars

\* C2 witness: every snapshot value has moved the index once, and a call with
\* snapshot 0 has just moved it again
C2_Witness ==
    \E t \in Threads :
        /\ ~PoolClosed(namenodes)
        /\ th[t].pc = "get_lock" /\ th[t].last = "advanced" /\ th[t].oldValue = 0
        /\ won = 0 .. Len(namenodes) - 1
        /\ currentNamenode = 1 % Len(namenodes)
        /\ Len(recent) = Len(namenodes) - 1

\* the one caller's invocation has ended and every execution of the work threw
\* the kinds in ks
SoloEnded(t, ks) ==
    th[t].pc = "done" /\ th[t].solo /\ th[t].execs > 0 /\ th[t].seen = ks

\* C3: one caller, HA enabled, every execution throws NameNodeStandbyException:
\* the work is executed maxNamenodeHARetry + 2 times, the index advances
\* maxNamenodeHARetry + 1 times, and NameNodeStandbyException leaves the loop.
C3_BoundedRetries ==
    \A t \in Threads :
        /\ (th[t].solo /\ enableNamenodeHA /\ th[t].seen \subseteq {"NameNodeStandbyException"}
              /\ th[t].raised # "result")
           => th[t].execs <= maxNamenodeHARetry + 2
        /\ (SoloEnded(t, {"NameNodeStandbyException"}) /\ enableNamenodeHA
              /\ th[t].raised = "NameNodeStandbyException")
           => /\ th[t].execs = maxNamenodeHARetry + 2
              /\ th[t].calls = maxNamenodeHARetry + 1
              /\ th[t].advances = maxNamenodeHARetry + 1
              /\ currentNamenode
                   = (th[t].start + maxNamenodeHARetry + 1) % Len(namenodes)
              /\ th[t].outcome = "NameNodeStandbyException"

\* C3 witness: such an invocation ended, with a positive retry limit
C3_Witness ==
    \E t \in Threads :
        /\ SoloEnded(t, {"NameNodeStandbyException"})
        /\ th[t].raised = "NameNodeStandbyException"
        /\ enableNamenodeHA /\ maxNamenodeHARetry >= 1
        /\ th[t].execs = maxNamenodeHARetry + 2

\* C4 as stated: an HdfsFailoverException caught with the budget exhausted or HA
\* disabled always ends the invocation by throwing HdfsRpcException that carries
\* the original cause, whether or not the HdfsFailoverException nests a cause
C4_FailoverTranslated ==
    \A t \in Threads :
        (th[t].raised = "HdfsFailoverException" /\ th[t].pc \notin {"fo_lock"})
        => /\ th[t].pc = "done"
           /\ th[t].outcome = "HdfsRpcException"
           /\ th[t].value = th[t].rcause

\* C5 as stated: with one endpoint a NameNodeStandbyException or an
\* HdfsFailoverException propagates on its first occurrence: the invocation ends
\* with a thrown failure, the work was executed once, failoverToNextNamenode was
\* not called and the index is unchanged
C5_SingleEndpoint ==
    \A t \in Threads :
        (~enableNamenodeHA /\ Retryable(th[t].raised))
        => /\ th[t].pc = "done"
           /\ th[t].outcome \in {"NameNodeStandbyException", "HdfsRpcException"}
           /\ th[t].execs = 1
           /\ th[t].calls = 0
           /\ currentNamenode = 0

\* C6: a failure that is neither NameNodeStandbyException nor
\* HdfsFailoverException leaves the loop unchanged on the attempt that threw it:
\* the invocation is over, the index and the number of failoverToNextNamenode
\* calls are as before that attempt, whatever the HA mode and the budget left.
C6_NonRetryablePassthrough ==
    [][\A t \in Threads :
         (th[t].pc = "work" /\ th'[t].raised = "other")
         => /\ th'[t].pc = "done"
            /\ th'[t].outcome = "other"
            /\ th'[t].execs = th[t].execs + 1
            /\ th'[t].calls = th[t].calls
            /\ th'[t].calls = th[t].execs
            /\ th'[t].count = th[t].count
            /\ currentNamenode' = currentNamenode]_vars

\* C6 witness: with HA enabled and budget left, a later attempt threw such a
\* failure and the invocation ended with it
C6_Witness ==
    \E t \in Threads :
        /\ th[t].pc = "done" /\ th[t].raised = "other" /\ th[t].outcome = "other"
        /\ enableNamenodeHA /\ th[t].count <= maxNamenodeHARetry
        /\ th[t].execs = 2 /\ th[t].calls = 1

\* C7: one caller, HA enabled, the first k endpoints tried
\* (k <= maxNamenodeHARetry + 1) fail retryably and the next succeeds: the
\* invocation is not given up before that attempt (a retryable failure ends it
\* only on attempt maxNamenodeHARetry + 2), it returns that endpoint's result,
\* and the index is that endpoint's position, (start + k) mod size.
C7_SuccessAfterFailover ==
    \A t \in Threads :
        /\ (th[t].pc \in {"done", "aborted"} /\ th[t].solo /\ enableNamenodeHA
              /\ Retryable(th[t].raised))
           => th[t].execs = maxNamenodeHARetry + 2
        /\ (th[t].pc = "done" /\ th[t].solo /\ th[t].outcome = "result" /\ enableNamenodeHA)
           => /\ th[t].execs - 1 <= maxNamenodeHARetry + 1
              /\ currentNamenode = (th[t].start + th[t].execs - 1) % Len(namenodes)
              /\ th[t].value
                   = namenodes[((th[t].start + th[t].execs - 1) % Len(namenodes)) + 1]
              /\ th[t].advances = th[t].execs - 1

\* C7 witness: maxNamenodeHARetry = 2, three endpoints, two
\* HdfsFailoverExceptions and then the third endpoint's result
C7_Witness ==
    \E t \in Threads :
        /\ th[t].pc = "done" /\ th[t].solo /\ th[t].outcome = "result"
        /\ maxNamenodeHARetry = 2 /\ Len(namenodes) = 3
        /\ th[t].seen = {"HdfsFailoverException"} /\ th[t].execs = 3
        /\ th[t].start = 0
        /\ th[t].value = namenodes[3] /\ currentNamenode = 2

\* thread t's getActiveNamenode call completes in this step
GetCallEnds(t) == th[t].pc = "get_cs" /\ th'[t].pc # "get_cs"

\* thread t's close call completes in this step
CloseCallEnds(t) == th[t].pc = "close_cs" /\ th'[t].pc # "close_cs"

\* C8: once close() has been called, the pool is empty and stays empty, every
\* getActiveNamenode call throws HdfsFileSystemClosed without the work being
\* executed, and a further close() changes nothing.
C8_CloseIdempotentIrreversible ==
    [][closes >= 1
       => /\ PoolClosed(namenodes) /\ PoolClosed(namenodes')
          /\ \A t \in Threads :
               /\ GetCallEnds(t)
                  => /\ th'[t].pc = "done"
                     /\ th'[t].outcome = "HdfsFileSystemClosed"
                     /\ th'[t].execs = th[t].execs
               /\ CloseCallEnds(t)
                  => /\ namenodes' = namenodes
                     /\ currentNamenode' = currentNamenode
                     /\ enableNamenodeHA' = enableNamenodeHA
                     /\ maxNamenodeHARetry' = maxNamenodeHARetry]_vars

\* C8 witness: close() was called twice and a later invocation ended with
\* HdfsFileSystemClosed, the work never executed
C8_Witness ==
    /\ closes = 2
    /\ \E t \in Threads :
         /\ th[t].pc = "done" /\ th[t].outcome = "HdfsFileSystemClosed"
         /\ th[t].execs = 0

\* C9 as stated: failoverToNextNamenode executed after close() is well-defined,
\* it never computes the index modulo an empty pool
C9_AdvanceAfterCloseDefined == ~undefined

\* C10: mut is never held by a thread that is inside its remote call; whoever
\* holds it is inside one of the three short critical sections.
C10_LockNotHeldInWork ==
    /\ \A t \in Threads : th[t].pc = "work" => mut # t
    /\ mut # 0 => th[mut].pc \in {"get_cs", "fo_cs", "close_cs"}

\* C10 witness: one thread is inside its remote call while another holds mut
C10_Witness ==
    \E t, u \in Threads :
        /\ t # u
        /\ th[t].pc = "work"
        /\ mut = u
        /\ th[u].pc \in {"get_cs", "fo_cs", "close_cs"}

\* C11 as stated: the index is changed only by failoverToNextNamenode under mut,
\* and every change is one step forward, from i to (i + 1) mod the pool's size;
\* nothing, close() included, makes it skip or reset
C11_IndexMonotone ==
    [][currentNamenode' # currentNamenode
       => \E t \in Threads :
            /\ FailoverCallEnds(t)
            /\ mut = t
            /\ currentNamenode' = (currentNamenode + 1) % Len(pool)]_vars

\* position of the active namenode's handle in the pool as constructed
ActivePosition == CHOOSE i \in 0 .. Len(pool) - 1 : IsActive(pool[i + 1])

\* C12: one namenode always answers, every other one always throws
\* NameNodeStandbyException, HA is enabled and maxNamenodeHARetry >= size - 2:
\* every invocation of every thread ends, and ends with the active namenode's
\* result; once the index is the active namenode's position it stays there.
C12_EventuallyActiveResult ==
    /\ [](\A t \in Threads :
            /\ th[t].pc # "aborted"
            /\ th[t].pc = "done"
               => (th[t].outcome = "result" /\ IsActive(th[t].value)))
    /\ [][currentNamenode = ActivePosition
          => currentNamenode' = ActivePosition]_vars
    /\ \A t \in Threads :
         (th[t].pc \notin {"idle", "done"}) ~> (th[t].pc = "done")

\* C12 witness: an invocation needed its whole budget to get the active
\* namenode's result while another thread's failoverToNextNamenode call found
\* the index already advanced
C12_Witness ==
    \E t, u \in Threads :
        /\ t # u
        /\ Len(namenodes) = 3
        /\ th[t].pc = "done" /\ th[t].outcome = "result"
        /\ th[t].calls = maxNamenodeHARetry + 1
        /\ currentNamenode = ActivePosition
        /\ th[u].last = "noop"

\* the retryable failure of t's latest attempt has not been followed by a
\* completed failoverToNextNamenode call
PendingFailure(t) ==
    IF th[t].pc \in {"fo_lock", "fo_cs"} \/ Retryable(th[t].raised) THEN 1 ELSE 0

\* C13: whatever the other threads do, an invocation executes the work at most
\* maxNamenodeHARetry + 2 times (once when HA is disabled) and calls
\* failoverToNextNamenode at most maxNamenodeHARetry + 1 times; with HA enabled
\* __count is the number of its retryable failures, also of those whose
\* failoverToNextNamenode call found the index already advanced.
C13_BudgetPerInvocation ==
    \A t \in Threads :
        /\ th[t].execs <= (IF enableNamenodeHA THEN maxNamenodeHARetry + 2 ELSE 1)
        /\ th[t].calls <= (IF enableNamenodeHA THEN maxNamenodeHARetry + 1 ELSE 0)
        /\ enableNamenodeHA => th[t].count = th[t].calls + PendingFailure(t)
        /\ th[t].execs
             = th[t].calls + PendingFailure(t)
                 + (IF th[t].raised \in {"result", "other"} THEN 1 ELSE 0)

\* C13 witness: a failoverToNextNamenode call of the invocation was a no-op and
\* the invocation then used up its budget
C13_Witness ==
    \E t \in Threads :
        /\ th[t].pc = "get_lock" /\ th[t].last = "noop"
        /\ th[t].count = maxNamenodeHARetry + 1
        /\ th[t].calls = maxNamenodeHARetry + 1

\* C14: failoverToNextNamenode(snapshot) leaves the index unchanged when the
\* snapshot differs from the index, sets it to (index + 1) mod size when they
\* are equal and the pool is open, and never changes the pool.
C14_StaleAdvanceNoop ==
    [][\A t \in Threads :
         FailoverCallEnds(t)
         => /\ th[t].oldValue # currentNamenode => currentNamenode' = currentNamenode
            /\ (th[t].oldValue = currentNamenode /\ ~PoolClosed(namenodes))
               => currentNamenode' = (currentNamenode + 1) % Len(namenodes)
            /\ namenodes' = namenodes]_vars

\* C14 witness: a call with a stale snapshot has returned and the index is
\* where the other thread's call put it
C14_Witness ==
    \E t \in Threads :
        /\ ~PoolClosed(namenodes)
        /\ th[t].pc = "get_lock" /\ th[t].last = "noop"
        /\ th[t].oldValue # currentNamenode

\* C15: getActiveNamenode returns the snapshot and the handle together: the
\* snapshot is the index and the handle is the pool entry at that position at
\* that instant, and an attempt runs on the handle its snapshot names whatever
\* happens to the index and the pool afterwards.
C15_RaceFreeSelection ==
    /\ [](\A t \in Threads :
            th[t].pc \in {"work", "fo_lock", "fo_cs"}
            => th[t].namenode = pool[(th[t].oldValue % Len(pool)) + 1])
    /\ [][\A t \in Threads :
            (GetCallEnds(t) /\ th'[t].pc = "work")
            => /\ th'[t].oldValue = currentNamenode
               /\ th'[t].namenode = namenodes[(currentNamenode % Len(namenodes)) + 1]
               /\ currentNamenode' = currentNamenode
               /\ namenodes' = namenodes]_vars

\* C15 witness: a thread is inside its remote call, the index has moved on from
\* its snapshot and the pool has been closed
C15_Witness ==
    \E t \in Threads :
        /\ th[t].pc = "work"
        /\ PoolClosed(namenodes)
        /\ th[t].oldValue # currentNamenode
        /\ th[t].namenode = pool[th[t].oldValue + 1]

\* C16: the constructor leaves one handle per configured endpoint, in some
\* order; until close() the sequence stays as constructed; only close() changes
\* it, by emptying it.
C16_PoolFrame ==
    /\ [](/\ Len(pool) >= 1
          /\ \A i \in 1 .. Len(pool) : \E j \in 1 .. Len(pool) : pool[j] = i
          /\ closes = 0 => namenodes = pool)
    /\ [][/\ namenodes' # namenodes
             => (namenodes' = <<>> /\ \E t \in Threads : CloseCallEnds(t))
          /\ \A t \in Threads : CloseCallEnds(t) => namenodes' = <<>>]_vars

\* C16 witness: the handles were shuffled, an invocation failed over and ended,
\* and the pool is still as constructed
C16_Witness ==
    \E t \in Threads :
        /\ closes = 0 /\ namenodes = pool
        /\ Len(pool) >= 2 /\ pool[1] # 1
        /\ th[t].pc = "done" /\ th[t].calls >= 1

\* C17: while the pool is open the index is a valid position, so the snapshot a
\* caller gets is the position of the handle it gets.
C17_IndexInRange ==
    ~PoolClosed(namenodes)
    => /\ currentNamenode \in 0 .. Len(namenodes) - 1
       /\ \A t \in Threads :
            th[t].pc = "work"
            => /\ th[t].oldValue % Len(namenodes) = th[t].oldValue
               /\ th[t].namenode = namenodes[th[t].oldValue + 1]

\* C17 witness: the index has wrapped to 0 from the last position and a caller
\* holds that snapshot
C17_Witness ==
    \E t \in Threads :
        /\ ~PoolClosed(namenodes) /\ Len(namenodes) >= 2
        /\ won = 0 .. Len(namenodes) - 1
        /\ currentNamenode = 0
        /\ th[t].pc = "work" /\ th[t].oldValue = 0

\* C18: the attempt that ends an invocation is not followed by a
\* failoverToNextNamenode call and leaves the index alone; so one caller's
\* invocation that used up its budget from index s leaves the index at
\* (s + maxNamenodeHARetry + 1) mod size, the position of the endpoint that
\* failed last, and that caller's next invocation starts at that endpoint.
C18_LastAttemptNoAdvance ==
    /\ [][\A t \in Threads :
            (th[t].pc = "work" /\ th'[t].pc \in {"done", "aborted"})
            => /\ currentNamenode' = currentNamenode
               /\ th'[t].calls = th[t].calls
               /\ th[t].calls = th[t].execs]_vars
    /\ [](\A t \in Threads :
            /\ (th[t].pc = "done" /\ th[t].solo /\ enableNamenodeHA
                  /\ Retryable(th[t].raised))
               => /\ currentNamenode
                       = (th[t].start + maxNamenodeHARetry + 1) % Len(namenodes)
                  /\ currentNamenode = th[t].oldValue
                  /\ th[t].namenode = namenodes[currentNamenode + 1]
            /\ (th[t].pc = "work" /\ th[t].prev # -1)
               => /\ th[t].oldValue = th[t].prev
                  /\ th[t].namenode = pool[th[t].prev + 1])

\* C18 witness: the caller's previous invocation used up its budget and the
\* first attempt of its next one is running
C18_Witness ==
    \E t \in Threads :
        /\ th[t].pc = "work" /\ th[t].execs = 0
        /\ th[t].prev # -1
        /\ maxNamenodeHARetry >= 1

\* smaller of two numbers
Min(a, b) == IF a < b THEN a ELSE b

====
